---- MODULE Spec2Model ----
(***************************************************************************)
(* Model of crawler.py: the Tor-backed crawl loop (crawl_file), the link   *)
(* deduplication it starts with, the snippet extractor (search_in_html)    *)
(* and the report writer (write_result_html).                              *)
(*                                                                         *)
(* Text is a sequence of one-character strings.  An optional value is a    *)
(* sequence of length 0 (Python None) or 1 (the value).                    *)
(***************************************************************************)
EXTENDS Integers, Sequences, FiniteSets, TLC

\* ------------------------------------------------------------------ bounds
MaxLines == 3      \* raw input lines of a crawl run
MaxCap == 3        \* largest max_links_per_site of a crawl run
MaxRawLines == 3   \* raw input lines of a deduplication run
MaxLineLen == 2    \* characters per raw line of a deduplication run
PadSlack == 1      \* how far the filling of a searched page goes past the radius

\* ------------------------------------------------------------ text helpers
None == <<>>
Some(x) == <<x>>

Min(a, b) == IF a < b THEN a ELSE b
Max(a, b) == IF a > b THEN a ELSE b

BoundedSeq(S, n) == UNION {[1..k -> S] : k \in 0..n}

Range(s) == {s[i] : i \in 1..Len(s)}

\* str.strip() / the truth test "if ln.strip()": characters str.strip removes
Whitespace == {" ", "\t", "\n"}

\* str.strip(): drop the leading and the trailing whitespace, keep the inside
RECURSIVE LStrip(_)
LStrip(s) ==
    IF s = <<>> THEN <<>>
    ELSE IF Head(s) \in Whitespace THEN LStrip(Tail(s)) ELSE s

RECURSIVE RStrip(_)
RStrip(s) ==
    IF s = <<>> THEN <<>>
    ELSE IF s[Len(s)] \in Whitespace THEN RStrip(SubSeq(s, 1, Len(s) - 1)) ELSE s

Strip(s) == RStrip(LStrip(s))

\* links = [ln.strip() for ln in raw if ln.strip()]
RECURSIVE StripLines(_)
StripLines(lines) ==
    IF lines = <<>> THEN <<>>
    ELSE IF Strip(Head(lines)) # <<>>
         THEN <<Strip(Head(lines))>> \o StripLines(Tail(lines))
         ELSE StripLines(Tail(lines))

\* the dedup loop: seen = set(); uniq_links = []; for l in links: ...
RECURSIVE DedupLoop(_, _, _)
DedupLoop(ls, seen, uniq) ==
    IF ls = <<>> THEN uniq
    ELSE IF Head(ls) \notin seen
         THEN DedupLoop(Tail(ls), seen \cup {Head(ls)}, Append(uniq, Head(ls)))
         ELSE DedupLoop(Tail(ls), seen, uniq)

\* the loop without its "if l not in seen" test: every link is appended
DedupKeepsAll(ls) == ls

Dedup(ls) == DedupLoop(ls, {}, <<>>)

\* -------------------------------------------------------- search_in_html
\* the context kept on each side of the match: idx - 120, idx + 120
SnippetRadius == 120

\* str.lower() on the characters of the model's alphabet.  "Idot" stands for
\* the one character U+0130 (capital I with dot above), the character whose
\* lower-case form is two characters long: "i" and the combining dot U+0307,
\* here "dot"
LowerChar(c) ==
    CASE c = "A" -> <<"a">>
      [] c = "B" -> <<"b">>
      [] c = "Idot" -> <<"i", "dot">>
      [] OTHER -> <<c>>

\* the lower-case forms of the characters of s, one after the other (the
\* sequence is halved so that a long page does not nest deeply)
RECURSIVE Lower(_)
Lower(s) ==
    IF s = <<>> THEN <<>>
    ELSE IF Len(s) = 1 THEN LowerChar(s[1])
    ELSE LET mid == Len(s) \div 2
         IN Lower(SubSeq(s, 1, mid)) \o Lower(SubSeq(s, mid + 1, Len(s)))

\* an index of a slice as Python reads it: a negative one counts from the
\* end, and both are clipped to 0..len
SliceIndex(len, x) == IF x < 0 THEN Max(0, len + x) ELSE Min(x, len)

\* s[start:end]: Python's 0-based half-open slice
Slice(s, start, end) ==
    LET a == SliceIndex(Len(s), start)
        b == SliceIndex(Len(s), end)
    IN IF b <= a THEN <<>> ELSE SubSeq(s, a + 1, b)

\* hay.find(needle): the 0-based index of the first occurrence, -1 if none
MatchesAt(hay, needle, i) ==
    /\ i + Len(needle) <= Len(hay)
    /\ \A j \in 1..Len(needle) : hay[i + j] = needle[j]

Find(hay, needle) ==
    LET hits == {i \in 0..Len(hay) : MatchesAt(hay, needle, i)}
    IN IF hits = {} THEN -1 ELSE CHOOSE i \in hits : \A j \in hits : i <= j

\* the last position before i at which s holds c, 0 when there is none
LastBefore(s, c, i) ==
    LET at == {j \in 1..(i - 1) : s[j] = c}
    IN IF at = {} THEN 0 ELSE CHOOSE j \in at : \A m \in at : m <= j

\* position i of s lies inside a tag: a "<" before it is not yet closed
InTag(s, i) ==
    LET open == LastBefore(s, "<", i)
    IN open > 0 /\ LastBefore(s, ">", i) < open

\* the characters of s[lo..hi] that are text
RECURSIVE TextOf(_, _, _)
TextOf(s, lo, hi) ==
    IF lo > hi THEN <<>>
    ELSE IF lo = hi
         THEN IF InTag(s, lo) \/ s[lo] = "<" THEN <<>> ELSE <<s[lo]>>
         ELSE LET mid == (lo + hi) \div 2
              IN TextOf(s, lo, mid) \o TextOf(s, mid + 1, hi)

\* BeautifulSoup(snippet, "lxml").get_text() on a window whose markup is made of
\* complete "<...>" tags, as the pages of this model are: the tags are
\* dropped, the text between them is kept
GetText(s) == TextOf(s, 1, Len(s))

\* str.replace("\n", " ")
ReplaceNewlines(s) == [i \in 1..Len(s) |-> IF s[i] = "\n" THEN " " ELSE s[i]]

Ellipsis == <<".", ".", ".">>

\* the search without html.lower(): idx = html.find(k)
FoundAtWithoutLowering(html, keyword) == Find(html, Lower(keyword))

\* idx = lowered.find(k), with lowered = html.lower() and k = keyword.lower()
FoundAt(html, keyword) == Find(Lower(html), Lower(keyword))

\* search_in_html's start = max(0, idx - 120)
WindowStart(idx) == Max(0, idx - SnippetRadius)

\* search_in_html's end = min(len(html), idx + 120)
WindowEnd(html, idx) == Min(Len(html), idx + SnippetRadius)

\* search_in_html's local snippet = html[start:end], the raw window; None when
\* the function returns before it
Window(html, keyword) ==
    IF keyword = <<>> THEN None
    ELSE LET idx == FoundAt(html, keyword)
         IN IF idx = -1 THEN None
            ELSE Some(Slice(html, WindowStart(idx), WindowEnd(html, idx)))

\* search_in_html(html, keyword): None, or Some("..." + text + "...")
search_in_html(html, keyword) ==
    LET w == Window(html, keyword)
    IN IF w = None THEN None
       ELSE LET s == GetText(w[1])
            IN Some(Ellipsis \o ReplaceNewlines(Strip(s)) \o Ellipsis)

\* ------------------------------------------------------- inputs of a run
\* the raw lines of the input file of a crawl run
CrawlLines == {<<" ">>, <<"a">>, <<"b", " ">>, <<"c">>}

\* the alphabet of the raw lines of a deduplication run
LineChars == {" ", "a"}

\* --keyword
Keywords == {<<>>, <<"a">>}

\* --delay-min, --delay-max (argparse type=float takes a negative value too):
\* a range from which both a negative delay and a delay that time.sleep takes
\* can be drawn
DelayMins == {-1}
DelayMaxs == {0}

\* what driver.get(link) does: returns, or raises one of the exception classes
\* the handlers of the loop tell apart, or the user's interrupt (a
\* BaseException, which "except Exception" does not catch) arrives during it
GetResults == {"ok", "TimeoutException", "WebDriverException", "Exception",
               "KeyboardInterrupt"}

\* driver.page_source of a loaded page (None when the driver has no source)
PageSources == {None, Some(<<"A">>), Some(<<"<", "b", ">", "x">>)}

\* driver.title of a loaded page: a title, or the property raises
TitleResults == {"raise", "T"}

\* -------------------------------------------------------------- the state
VARIABLES
    pc,                 \* position of crawl_file: "read", "acquire", "loop",
                        \* "fetch", "sleep", "finally", "write"; ended: "noop"
                        \* (no links), "aborted" (no driver), "done" (report
                        \* written), "raised" (an exception left crawl_file)
    raw,                \* the lines read from input_path
    keyword,            \* parameter keyword
    max_links_per_site, \* parameter max_links_per_site
    delay_min,          \* parameter delay_min
    delay_max,          \* parameter delay_max
    uniq_links,         \* local uniq_links
    driver,             \* local driver: "None", "open" or "quit"
    count,              \* local count
    pos,                \* links the for loop has taken from uniq_links
    link,               \* loop variable link (optional)
    entries,            \* local entries
    exc,                \* exception in flight, "" when none
    fetched,            \* the links passed to driver.get, in call order
    log,                \* the outcome printed for each fetched link, in order
    pages,              \* the page source got for each of them (optional:
                        \* None when the fetch raised), in order
    titles,             \* what driver.title did for each of them (optional:
                        \* None when the fetch raised before it), in order
    html,               \* local html
    snippet,            \* local snippet (optional)
    window,             \* the raw window html[start:end] of the last
                        \* search_in_html call (optional)
    sleeps,             \* completed time.sleep(delay) calls
    quits,              \* driver.quit() calls
    clock,              \* the wall clock, in seconds
    report              \* the files written: <<outpath, entries written>> each

vars == <<pc, raw, keyword, max_links_per_site, delay_min, delay_max, uniq_links,
          driver, count, pos, link, entries, exc, fetched, log, pages, titles,
          html, snippet, window, sleeps, quits, clock, report>>

\* the locals of the page search
search == <<html, snippet, window>>

config == <<raw, keyword, max_links_per_site, delay_min, delay_max>>

\* ------------------------------------------------------------ crawl_file
Fresh ==
    /\ uniq_links = <<>>
    /\ pages = <<>>
    /\ titles = <<>>
    /\ html = <<>>
    /\ snippet = None
    /\ window = None
    /\ driver = "None"
    /\ count = 0
    /\ pos = 0
    /\ link = None
    /\ entries = <<>>
    /\ exc = ""
    /\ fetched = <<>>
    /\ log = <<>>
    /\ sleeps = 0
    /\ quits = 0
    /\ clock = 0
    /\ report = <<>>

Start(lines) ==
    /\ pc = "read"
    /\ raw = lines
    /\ Fresh

Init ==
    /\ \E lines \in BoundedSeq(CrawlLines, MaxLines) : Start(lines)
    /\ keyword \in Keywords
    /\ max_links_per_site \in 0..MaxCap
    /\ delay_min \in DelayMins
    /\ delay_max \in DelayMaxs

\* the empty-input test left out
NoLinksNeverTrue(links) == FALSE

\* if not links: ... return
NoLinks(links) == links = <<>>

\* read the links, strip and filter them; return when none is left, else
\* deduplicate them preserving order
ReadLinks ==
    /\ pc = "read"
    /\ LET links == StripLines(raw)
       IN IF NoLinks(links)
          THEN /\ pc' = "noop"
               /\ UNCHANGED uniq_links
          ELSE /\ uniq_links' = Dedup(links)
               /\ pc' = "acquire"
    /\ UNCHANGED <<pages, titles, search, config, driver, count, pos, link, entries, exc, fetched, log,
                   sleeps, quits, clock, report>>

\* what make_firefox_driver does: returns a driver or raises
AcquireResults == {"ok", "WebDriverException"}

\* the except clause without its return: the run goes on into the loop
AfterAcquireNoReturn(r) == "loop"

\* where crawl_file goes on after make_firefox_driver: into the loop, or out
\* by the return of the except clause
AfterAcquire(r) == IF r = "ok" THEN "loop" ELSE "aborted"

\* entries = []; driver = None; try: driver = make_firefox_driver(...)
\* except WebDriverException: ...; return.  Then count = 0
Acquire ==
    /\ pc = "acquire"
    /\ \E r \in AcquireResults :
          /\ driver' = IF r = "ok" THEN "open" ELSE "None"
          /\ pc' = AfterAcquire(r)
    /\ entries' = <<>>
    /\ count' = 0
    /\ UNCHANGED <<pages, titles, search, config, uniq_links, pos, link, exc, fetched, log, sleeps,
                   quits, clock, report>>

\* the cap test off by one: the loop stops one link early
CapReachedOffByOne(c, cap) == c >= cap

\* if count > max_links_per_site: break
CapReached(c, cap) == c > cap

\* the loop walking the list from its end: for link in reversed(uniq_links)
NextLinkFromEnd(links, p) == links[Len(links) - p]

\* the loop handing out the first link again and again
NextLinkAlwaysFirst(links, p) == links[1]

\* the link the for loop takes after having taken p of them
NextLink(links, p) == links[p + 1]

\* for link in uniq_links: count += 1; if count > max_links_per_site: break
LoopHead ==
    /\ pc = "loop"
    /\ IF pos = Len(uniq_links)
       THEN /\ pc' = "finally"
            /\ UNCHANGED <<pos, link, count>>
       ELSE /\ pos' = pos + 1
            /\ link' = Some(NextLink(uniq_links, pos))
            /\ count' = count + 1
            /\ pc' = IF CapReached(count + 1, max_links_per_site)
                    THEN "finally" ELSE "fetch"
    /\ UNCHANGED <<pages, titles, search, config, uniq_links, driver, entries, exc, fetched, log,
                   sleeps, quits, clock, report>>

\* the per-link try without its last clause, "except Exception"
CaughtWithoutLastClause(e) == e \in {"TimeoutException", "WebDriverException"}

\* the exception classes the except clauses of the per-link try catch:
\* TimeoutException, WebDriverException, Exception
Caught(e) == e \in {"TimeoutException", "WebDriverException", "Exception"}

\* the except clauses in their order: the line printed for a caught exception
Handler(e) ==
    IF e = "TimeoutException" THEN "Timeout"
    ELSE IF e = "WebDriverException" THEN "WebDriver error"
    ELSE "Error"

\* the match test inverted: if not snippet:
IsMatchInverted(found) == found = None

\* if snippet: (a returned snippet is never the empty string)
IsMatch(found) == found # None

\* entries.insert(0, entry) in the place of entries.append(entry)
InsertEntryFirst(es, e) == <<e>> \o es

\* entries.append(entry)
AppendEntry(es, e) == Append(es, e)

\* the except clause of the title setting title = None
TitleOrNone(t) == IF t = "raise" THEN "None" ELSE t

\* try: title = driver.title; except Exception: title = ""
TitleOf(t) == IF t = "raise" THEN "" ELSE t

\* the per-link try: driver.get(link), the page source, the title, the search,
\* the entry appended on a match; the handlers; an exception no handler
\* catches leaves the loop for the finally clause
Fetch ==
    /\ pc = "fetch"
    /\ fetched' = Append(fetched, link[1])
    /\ \E r \in GetResults, src \in PageSources, t \in TitleResults :
          IF r = "ok"
          THEN LET body == IF src = None THEN <<>> ELSE src[1]
                   title == TitleOf(t)
                   found == IF keyword # <<>>
                            THEN search_in_html(body, keyword) ELSE None
               IN /\ clock' = clock + 1
                  /\ html' = body
                  /\ pages' = Append(pages, Some(body))
                  /\ titles' = Append(titles, Some(t))
                  /\ snippet' = found
                  /\ window' = IF keyword # <<>>
                               THEN Window(body, keyword) ELSE window
                  /\ IF IsMatch(found)
                     THEN /\ entries' = AppendEntry(entries,
                                 [url |-> link[1], title |-> title,
                                  snippet |-> found, timestamp |-> clock + 1])
                          /\ log' = Append(log, "MATCH")
                     ELSE /\ entries' = entries
                          /\ log' = Append(log, "no match")
                  /\ pc' = "sleep"
                  /\ exc' = exc
          ELSE IF Caught(r)
          THEN /\ log' = Append(log, Handler(r))
               /\ pages' = Append(pages, None)
               /\ titles' = Append(titles, None)
               /\ pc' = "sleep"
               /\ UNCHANGED <<entries, clock, exc, search>>
          ELSE /\ exc' = r
               /\ pc' = "finally"
               /\ UNCHANGED <<entries, clock, log, pages, titles, search>>
    /\ UNCHANGED <<config, uniq_links, driver, count, pos, link, sleeps, quits,
                   report>>

\* delay = random.uniform(delay_min, delay_max); time.sleep(delay), which
\* raises ValueError for a negative delay
Sleep ==
    /\ pc = "sleep"
    /\ \E delay \in Min(delay_min, delay_max)..Max(delay_min, delay_max) :
          IF delay < 0
          THEN /\ exc' = "ValueError"
               /\ pc' = "finally"
               /\ UNCHANGED <<sleeps, clock>>
          ELSE /\ sleeps' = sleeps + 1
               /\ clock' = clock + delay
               /\ pc' = "loop"
               /\ exc' = exc
    /\ UNCHANGED <<pages, titles, search, config, uniq_links, driver, count, pos, link, entries,
                   fetched, log, quits, report>>

\* the test of the finally clause inverted: if not driver:
MustQuitInverted(d) == d = "None"

\* if driver:
MustQuit(d) == d # "None"

\* finally: if driver: driver.quit(); an exception in flight goes on out of
\* crawl_file
Finally ==
    /\ pc = "finally"
    /\ IF MustQuit(driver)
       THEN /\ driver' = "quit"
            /\ quits' = quits + 1
       ELSE UNCHANGED <<driver, quits>>
    /\ pc' = IF exc # "" THEN "raised" ELSE "write"
    /\ UNCHANGED <<pages, titles, search, config, uniq_links, count, pos, link, entries, exc, fetched,
                   log, sleeps, clock, report>>

\* write_result_html(entries, outpath): one block per entry, in list order
write_result_html(es) ==
    [i \in 1..Len(es) |-> [url |-> es[i].url, title |-> es[i].title,
                           found |-> es[i].snippet, when |-> es[i].timestamp]]

\* timestamped = f"results_{int(time.time())}.html"; write_result_html(...)
WriteResults ==
    /\ pc = "write"
    /\ report' = Append(report, [run |-> "this", outpath |-> clock,
                                 blocks |-> write_result_html(entries)])
    /\ pc' = "done"
    /\ UNCHANGED <<pages, titles, search, config, uniq_links, driver, count, pos, link, entries, exc,
                   fetched, log, sleeps, quits, clock>>

Next ==
    \/ ReadLinks
    \/ Acquire
    \/ LoopHead
    \/ Fetch
    \/ Sleep
    \/ Finally
    \/ WriteResults

Spec == Init /\ [][Next]_vars

\* another crawler process, started in the same directory, comes to the end of
\* its crawl_file: it names its report after the second the clock shows and
\* opens that name for writing, which truncates a file of that name
OtherRun ==
    /\ \A f \in 1..Len(report) : report[f].run # "other"
    /\ report' = Append(report, [run |-> "other", outpath |-> clock,
                                 blocks |-> write_result_html(<<>>)])
    /\ UNCHANGED <<pc, pages, titles, search, config, uniq_links, driver, count, pos, link,
                   entries, exc, fetched, log, sleeps, quits, clock>>

\* a crawl while another crawler process ends
SpecRuns == Init /\ [][Next \/ OtherRun]_vars

\* --------------------------------------------------- deduplication alone
\* every list of at most MaxRawLines lines of at most MaxLineLen characters
InitDedup ==
    /\ \E lines \in BoundedSeq(BoundedSeq(LineChars, MaxLineLen), MaxRawLines) :
          Start(lines)
    /\ keyword = <<>>
    /\ max_links_per_site = 1
    /\ delay_min = 0
    /\ delay_max = 0

SpecDedup == InitDedup /\ [][ReadLinks]_vars

\* ----------------------------------------------------- the search alone
\* n times the character c
Rep(c, n) == [i \in 1..n |-> c]

\* the lengths of the filling before and after the middle of a searched page:
\* none, one, and those around the radius of the window
Pads == {0, 1} \cup ((SnippetRadius - PadSlack)..(SnippetRadius + PadSlack))

\* the character the filling before the middle is made of
PadChars == {"x", "Idot"}

\* the middle of a searched page: the keyword in another letter case, the
\* same between tags, no keyword, the keyword between white space
Cores == {<<"A">>, <<"<", "p", ">", "A", "<", "/", "p", ">">>, <<"b">>,
          <<" ", "A", "\n", "b">>}

\* the html searched
SnippetBodies ==
    {Rep(c, p) \o core \o Rep("x", q) :
        c \in PadChars, p \in Pads, core \in Cores, q \in Pads}

\* search_in_html(html, keyword) called on every page and keyword
InitSnippet ==
    /\ pc = "search"
    /\ raw = <<>>
    /\ uniq_links = <<>>
    /\ pages = <<>>
    /\ titles = <<>>
    /\ html \in SnippetBodies
    /\ snippet = None
    /\ window = None
    /\ driver = "None"
    /\ count = 0
    /\ pos = 0
    /\ link = None
    /\ entries = <<>>
    /\ exc = ""
    /\ fetched = <<>>
    /\ log = <<>>
    /\ sleeps = 0
    /\ quits = 0
    /\ clock = 0
    /\ report = <<>>
    /\ keyword \in Keywords
    /\ max_links_per_site = 1
    /\ delay_min = 0
    /\ delay_max = 0

Search ==
    /\ pc = "search"
    /\ snippet' = search_in_html(html, keyword)
    /\ window' = Window(html, keyword)
    /\ pc' = "searched"
    /\ UNCHANGED <<html, pages, titles, config, uniq_links, driver, count, pos, link,
                   entries, exc, fetched, log, sleeps, quits, clock, report>>

SpecSnippet == InitSnippet /\ [][Search]_vars

\* ================================================================ claims
\* the lines the loop prints for a link whose fetch failed
Errors == {"Timeout", "WebDriver error", "Error"}

\* the loop was left by exhausting the links or by the cap's break
LoopOver == pc \in {"write", "done"} \/ (pc = "finally" /\ exc = "")

\* crawl_file has ended
Ended == pc \in {"noop", "aborted", "done", "raised"}

\* C1. Cap enforcement: with max_links_per_site = N >= 1 and M > N deduplicated
\* links, never more than N links are fetched, the fetched links are the first
\* links of the list in order, a run whose loop ran to its end has fetched
\* exactly N, and no entry and no block of the report names one of the
\* remaining M - N links, whatever the outcome of each fetch.
C1_CapEnforcement ==
    (max_links_per_site >= 1 /\ Len(uniq_links) > max_links_per_site) =>
        /\ Len(fetched) <= max_links_per_site
        /\ fetched = SubSeq(uniq_links, 1, Len(fetched))
        /\ LoopOver => Len(fetched) = max_links_per_site
        /\ \A j \in (max_links_per_site + 1)..Len(uniq_links) :
              /\ \A i \in 1..Len(entries) : entries[i].url # uniq_links[j]
              /\ \A f \in 1..Len(report) : \A i \in 1..Len(report[f].blocks) :
                    report[f].blocks[i].url # uniq_links[j]

\* a finished run of cap 2 over 3 links whose first fetch timed out and whose
\* second matched
C1_Witness ==
    /\ pc = "done"
    /\ max_links_per_site = 2
    /\ Len(uniq_links) = 3
    /\ log = <<"Timeout", "MATCH">>
    /\ Len(fetched) = 2

\* C2. Per-item isolation: when the fetch of the k-th link ends in Timeout,
\* WebDriver error or Error, no entry is appended for that link, no exception
\* of the per-link classes leaves the loop, the next link fetched (if any) is
\* the (k+1)-th, and a loop that ran to its end has fetched it whenever
\* k < min(max_links_per_site, M).
C2_PerItemIsolation ==
    /\ exc \notin {"TimeoutException", "WebDriverException", "Exception"}
    /\ \A k \in 1..Len(log) :
          log[k] \in Errors =>
             /\ fetched[k] = uniq_links[k]
             /\ \A i \in 1..Len(entries) : entries[i].url # fetched[k]
             /\ Len(fetched) > k => fetched[k + 1] = uniq_links[k + 1]
             /\ (LoopOver /\ k < Min(max_links_per_site, Len(uniq_links)))
                   => Len(fetched) > k

\* a finished run whose first fetch raised an unexpected exception and whose
\* second link was fetched and matched
C2_Witness ==
    /\ pc = "done"
    /\ Len(log) >= 2
    /\ log[1] = "Error"
    /\ log[2] = "MATCH"
    /\ Len(entries) = 1
    /\ entries[1].url = uniq_links[2]

\* C3. Guaranteed cleanup: driver.quit() is called at most once; it has not
\* been called while the loop runs; a run that acquired the driver has called
\* it exactly once when the report is written and when the run has ended,
\* by the end of the links, by the cap or by an exception that left the loop;
\* it is never called when no driver was acquired.
C3_GuaranteedCleanup ==
    /\ quits <= 1
    /\ driver = "None" => quits = 0
    /\ driver = "quit" <=> quits = 1
    /\ pc \in {"loop", "fetch", "sleep", "finally"} => (driver = "open" /\ quits = 0)
    /\ pc \in {"write", "done", "raised"} => (driver = "quit" /\ quits = 1)
    /\ pc \in {"read", "acquire", "noop", "aborted"} => (driver = "None" /\ quits = 0)

\* a run that an exception of the delay sleep ended, after a failed fetch:
\* the driver was quit once
C3_Witness ==
    /\ pc = "raised"
    /\ exc = "ValueError"
    /\ Len(log) >= 1
    /\ log[1] \in Errors
    /\ quits = 1

\* the position of x in a sequence without repeated elements
PosIn(seq, x) == CHOOSE k \in 1..Len(seq) : seq[k] = x

\* C4. Order preservation: the entries name fetched links only, in the order
\* in which those links were fetched, also when links in between failed or
\* did not match; and each report lists the entries in that same order.
C4_OrderPreservation ==
    /\ \A i \in 1..Len(entries) : entries[i].url \in Range(fetched)
    /\ \A i, j \in 1..Len(entries) :
          i < j => PosIn(fetched, entries[i].url) < PosIn(fetched, entries[j].url)
    /\ \A f \in 1..Len(report) :
          /\ Len(report[f].blocks) = Len(entries)
          /\ \A i \in 1..Len(entries) : report[f].blocks[i].url = entries[i].url

\* a finished run of three fetches: a match, a failure, a match
C4_Witness ==
    /\ pc = "done"
    /\ Len(fetched) = 3
    /\ log = <<"MATCH", "WebDriver error", "MATCH">>
    /\ Len(entries) = 2
    /\ Len(report) = 1

\* t is line s without its leading and trailing whitespace
IsTrimOf(t, s) ==
    \E i \in 0..Len(s), j \in 0..Len(s) :
       /\ i <= j
       /\ t = SubSeq(s, i + 1, j)
       /\ \A k \in 1..i : s[k] \in Whitespace
       /\ \A k \in (j + 1)..Len(s) : s[k] \in Whitespace
       /\ t # <<>> => (t[1] \notin Whitespace /\ t[Len(t)] \notin Whitespace)

\* the index of the first raw line whose trim is t
FirstLine(t) ==
    CHOOSE k \in 1..Len(raw) :
       /\ IsTrimOf(t, raw[k])
       /\ \A m \in 1..(k - 1) : ~IsTrimOf(t, raw[m])

\* C5. Link deduplication: once the input is read, uniq_links has no repeated
\* and no blank element, each element is the trim of some raw line, the trim
\* of every raw line that is not blank is an element, and the elements stand
\* in the order of their first appearance in the input; an input without a
\* link leaves it empty.
C5_LinkDeduplication ==
    pc # "read" =>
       /\ \A i, j \in 1..Len(uniq_links) : i # j => uniq_links[i] # uniq_links[j]
       /\ \A i \in 1..Len(uniq_links) :
             /\ uniq_links[i] # <<>>
             /\ \E k \in 1..Len(raw) : IsTrimOf(uniq_links[i], raw[k])
       /\ \A k \in 1..Len(raw) :
             ~IsTrimOf(<<>>, raw[k]) =>
                \E i \in 1..Len(uniq_links) : IsTrimOf(uniq_links[i], raw[k])
       /\ \A i, j \in 1..Len(uniq_links) :
             i < j => FirstLine(uniq_links[i]) < FirstLine(uniq_links[j])
       /\ raw = <<>> => uniq_links = <<>>

\* an input of three lines whose third repeats the first up to whitespace,
\* with another link between them
C5_Witness ==
    /\ pc = "acquire"
    /\ Len(raw) = 3
    /\ raw[1] # raw[3]
    /\ IsTrimOf(uniq_links[1], raw[1])
    /\ IsTrimOf(uniq_links[1], raw[3])
    /\ Len(uniq_links) = 2

\* C6. No-keyword behaviour: with an empty keyword no entry is ever appended
\* and no report holds a block, whatever the fetched pages hold; the links
\* are still fetched, up to the cap, by a loop that ran to its end.
C6_NoKeyword ==
    keyword = <<>> =>
       /\ entries = <<>>
       /\ \A f \in 1..Len(report) : report[f].blocks = <<>>
       /\ "MATCH" \notin Range(log)
       /\ LoopOver => Len(fetched) = Min(max_links_per_site, Len(uniq_links))

\* a finished run without keyword that loaded three pages
C6_Witness ==
    /\ keyword = <<>>
    /\ pc = "done"
    /\ log = <<"no match", "no match", "no match">>
    /\ Len(report) = 1

\* C7. Fatal acquisition failure: a run that make_firefox_driver failed is
\* in "aborted" at once, having fetched no link, appended no entry, written
\* no report, slept no delay and called no driver.quit(), and it stays there;
\* "aborted" is entered from the acquisition only, without a driver.
C7_FatalAcquisition ==
    /\ [](pc = "aborted" =>
             /\ driver = "None"
             /\ fetched = <<>>
             /\ log = <<>>
             /\ entries = <<>>
             /\ report = <<>>
             /\ sleeps = 0
             /\ quits = 0)
    /\ [][(pc = "acquire" /\ driver' = "None") => pc' = "aborted"]_vars
    /\ [][pc' = "aborted" => (pc = "acquire" /\ driver' = "None")]_vars
    /\ [][pc = "aborted" => pc' = "aborted"]_vars

\* a run over three links whose driver could not be started
C7_Witness ==
    /\ pc = "aborted"
    /\ Len(uniq_links) = 3
    /\ max_links_per_site = 3

\* every raw line is made of whitespace only
AllBlank(lines) ==
    \A k \in 1..Len(lines) : \A i \in 1..Len(lines[k]) : lines[k][i] \in Whitespace

\* C8. Empty input: when no raw line holds a link, reading the input ends the
\* run in "noop", not in "aborted" or "raised": no driver is ever acquired,
\* no link fetched, no entry appended and nothing written or released.
C8_EmptyInput ==
    AllBlank(raw) =>
       /\ pc \in {"read", "noop"}
       /\ driver = "None"
       /\ uniq_links = <<>>
       /\ fetched = <<>>
       /\ entries = <<>>
       /\ report = <<>>
       /\ quits = 0
       /\ sleeps = 0

\* a run over three blank lines, ended
C8_Witness ==
    /\ pc = "noop"
    /\ Len(raw) = 3
    /\ AllBlank(raw)

\* C9. Inter-request delay, as claimed: a finished run of A fetches has slept
\* A - 1 delays, and none when A <= 1.
C9_DelayBetweenAttemptsOnly ==
    pc = "done" =>
       sleeps = IF Len(fetched) <= 1 THEN 0 ELSE Len(fetched) - 1

\* C10. Finalize, as claimed: every run that acquired the driver and has ended
\* has quit the driver, has written exactly one report, holding its entries,
\* and has ended in "done".
C10_AlwaysFinalized ==
    (Ended /\ driver # "None") =>
       /\ pc = "done"
       /\ quits = 1
       /\ Len(report) = 1
       /\ report[1].blocks = write_result_html(entries)

\* kw occurs in body when letter case is ignored
OccursIn(kw, body) ==
    \E i \in 0..Len(Lower(body)) :
       /\ i + Len(Lower(kw)) <= Len(Lower(body))
       /\ SubSeq(Lower(body), i + 1, i + Len(Lower(kw))) = Lower(kw)

\* C11. Match-record creation: a link whose fetch has ended has an entry if
\* and only if its page was loaded, the keyword is not empty and the keyword
\* occurs in the page source, letter case ignored; no link has two entries; a
\* link whose fetch raised, was interrupted or was never made has none; and
\* the report holds one block per entry.
C11_MatchRecordCreation ==
    /\ Len(pages) = Len(log)
    /\ Len(log) <= Len(fetched)
    /\ \A k \in 1..Len(log) :
          (\E i \in 1..Len(entries) : entries[i].url = fetched[k])
             <=> /\ pages[k] # None
                 /\ keyword # <<>>
                 /\ OccursIn(keyword, pages[k][1])
    /\ \A i, j \in 1..Len(entries) : i # j => entries[i].url # entries[j].url
    /\ \A i \in 1..Len(entries) :
          \E k \in 1..Len(log) : entries[i].url = fetched[k]
    /\ \A f \in 1..Len(report) :
          /\ Len(report[f].blocks) = Len(entries)
          /\ \A i \in 1..Len(entries) : report[f].blocks[i].url = entries[i].url

\* a finished run of three fetches: a page with the keyword in another letter
\* case, a page without it, a timeout
C11_Witness ==
    /\ pc = "done"
    /\ keyword = <<"a">>
    /\ log = <<"MATCH", "no match", "Timeout">>
    /\ pages[1] = Some(<<"A">>)
    /\ pages[2] = Some(<<"<", "b", ">", "x">>)
    /\ Len(entries) = 1

\* the body positions i (0-based) at which kw occurs, letter case ignored,
\* over the n characters after i
OccursAt(kw, body, i, n) ==
    /\ i + n <= Len(body)
    /\ Lower(SubSeq(body, i + 1, i + n)) = Lower(kw)

Occurrences(kw, body) ==
    {i \in 0..Len(body) : \E n \in 1..Len(Lower(kw)) : OccursAt(kw, body, i, n)}

\* the index in body of the first occurrence of kw
FirstOccurrence(kw, body) ==
    CHOOSE i \in Occurrences(kw, body) : \A j \in Occurrences(kw, body) : i <= j

\* t occurs in s
IsSubstring(t, s) ==
    \E i \in 0..(Len(s) - Len(t)) : SubSeq(s, i + 1, i + Len(t)) = t

\* C12. Snippet content, as claimed: for a keyword that is not empty and
\* occurs in the page, letter case ignored, search_in_html returns
\* "..." + text + "...", where text holds the page's characters of the first
\* occurrence of the keyword, in the page's letter case, and no "<" or ">".
C12_SnippetHoldsKeyword ==
    (pc = "searched" /\ keyword # <<>> /\ Occurrences(keyword, html) # {}) =>
       /\ snippet # None
       /\ Len(snippet[1]) >= 6
       /\ SubSeq(snippet[1], 1, 3) = Ellipsis
       /\ SubSeq(snippet[1], Len(snippet[1]) - 2, Len(snippet[1])) = Ellipsis
       /\ LET text == SubSeq(snippet[1], 4, Len(snippet[1]) - 3)
              i == FirstOccurrence(keyword, html)
          IN /\ \E n \in 1..Len(Lower(keyword)) :
                   /\ OccursAt(keyword, html, i, n)
                   /\ IsSubstring(SubSeq(html, i + 1, i + n), text)
             /\ "<" \notin Range(text)
             /\ ">" \notin Range(text)

\* C13. Snippet window, as claimed: with the keyword first found at index i
\* of the page, the raw window is html[max(0, i - 120) : min(len(html), i + 120)],
\* at most 240 characters long; with an empty keyword or none found the
\* result is None.
C13_WindowAroundFirstOccurrence ==
    pc = "searched" =>
       IF keyword # <<>> /\ Occurrences(keyword, html) # {}
       THEN LET i == FirstOccurrence(keyword, html)
                from == IF i - 120 > 0 THEN i - 120 ELSE 0
                to == IF i + 120 < Len(html) THEN i + 120 ELSE Len(html)
            IN /\ window # None
               /\ window[1] = SubSeq(html, from + 1, to)
               /\ Len(window[1]) <= 240
       ELSE /\ snippet = None
            /\ window = None

\* C14. Attempt order and uniqueness: the k-th link fetched is the k-th
\* element of uniq_links, so no link is fetched twice and none is passed over
\* before a later one is fetched; the link about to be fetched is the one
\* after those fetched; and uniq_links does not change once it is built.
C14_AttemptOrder ==
    /\ [](/\ Len(fetched) <= Len(uniq_links)
          /\ \A k \in 1..Len(fetched) : fetched[k] = uniq_links[k]
          /\ \A j, k \in 1..Len(fetched) : j # k => fetched[j] # fetched[k]
          /\ pc = "fetch" => (/\ Len(fetched) < Len(uniq_links)
                              /\ link = Some(uniq_links[Len(fetched) + 1])))
    /\ [][pc # "read" => uniq_links' = uniq_links]_vars

\* a finished run that fetched its three links, the second of which failed
C14_Witness ==
    /\ pc = "done"
    /\ Len(uniq_links) = 3
    /\ fetched = uniq_links
    /\ log[2] = "Timeout"

\* C16. Title fallback: a link whose page loaded but whose driver.title
\* raised is logged as a match or as no match, never as a failure; it matches
\* exactly when the keyword occurs in its page; and then it has an entry,
\* whose title is the empty string the except clause sets, and every report
\* shows that title for it.
C16_TitleFallback ==
    /\ Len(titles) = Len(log)
    /\ \A k \in 1..Len(log) :
          titles[k] = Some("raise") =>
             /\ pages[k] # None
             /\ log[k] \in {"MATCH", "no match"}
             /\ log[k] = "MATCH" <=>
                   (keyword # <<>> /\ OccursIn(keyword, pages[k][1]))
             /\ log[k] = "MATCH" =>
                   \E i \in 1..Len(entries) :
                      /\ entries[i].url = fetched[k]
                      /\ entries[i].title = ""
                      /\ entries[i].snippet # None
                      /\ \A f \in 1..Len(report) :
                            /\ report[f].blocks[i].url = fetched[k]
                            /\ report[f].blocks[i].title = ""

\* a finished run whose first link loaded and matched while its title raised
C16_Witness ==
    /\ pc = "done"
    /\ Len(log) >= 1
    /\ titles[1] = Some("raise")
    /\ log[1] = "MATCH"
    /\ entries[1].title = ""
    /\ report[1].blocks[1].title = ""

\* C18. Fetcher lifetime: driver.get is only called on a driver that has been
\* acquired and not yet quit, and leaves it so; the driver is acquired at most
\* once, at line 119 and before any fetch, and is quit at most once; once quit
\* it stays quit and nothing is fetched any more; and the fetches happen one
\* at a time, each ended before the next begins.
C18_FetcherLifetime ==
    /\ [](pc = "fetch" => driver = "open")
    /\ [](fetched # <<>> => driver \in {"open", "quit"})
    /\ [](quits <= 1 /\ (driver = "quit" <=> quits = 1))
    /\ [][fetched' # fetched =>
             /\ pc = "fetch"
             /\ driver = "open" /\ driver' = "open"
             /\ Len(fetched') = Len(fetched) + 1
             /\ pc' # "fetch"]_vars
    /\ [][driver' # driver =>
             \/ /\ driver = "None" /\ driver' = "open"
                /\ pc = "acquire" /\ fetched = <<>>
             \/ /\ driver = "open" /\ driver' = "quit"
                /\ pc = "finally"]_vars
    /\ [][driver = "quit" => (driver' = "quit" /\ fetched' = fetched)]_vars

\* a run that acquired the driver, fetched two links with it, quit it and went
\* on to write its report
C18_Witness ==
    /\ pc = "done"
    /\ driver = "quit"
    /\ quits = 1
    /\ Len(fetched) = 2

\* crawl_file runs on while it can: the program is one thread that is never
\* suspended for ever
FairSpec == Spec /\ WF_vars(Next)

\* crawl_file returned: no links, no driver, or the report written
Returned == pc \in {"noop", "aborted", "done"}

\* a call of driver.get or of time.sleep did not return: it was left by an
\* exception that no clause of crawl_file catches
DidNotReturn == exc \in {"KeyboardInterrupt", "ValueError"}

\* C17. Termination: every run in which each driver.get and each time.sleep
\* returns comes to return from crawl_file (no links, no driver, or report
\* written), and nothing but a call that did not return leaves crawl_file
\* otherwise; at no time have more than min(max_links_per_site, M) links been
\* attempted, M being the number of deduplicated links; and no link is
\* attempted twice, whatever the outcomes of the fetches.
C17_Termination ==
    /\ <>(Returned \/ DidNotReturn)
    /\ [](pc = "raised" <=> (Ended /\ DidNotReturn))
    /\ [](Len(fetched) <= Min(max_links_per_site, Len(uniq_links)))
    /\ [](\A j, k \in 1..Len(fetched) : fetched[j] = fetched[k] => j = k)
    /\ [][Returned => UNCHANGED vars]_vars

\* a run that returned after two attempts, one that timed out and one that
\* loaded, with more links left than the cap allowed
C17_Witness ==
    /\ pc = "done"
    /\ exc = ""
    /\ max_links_per_site = 2
    /\ Len(uniq_links) = 3
    /\ Len(fetched) = 2
    /\ log[1] = "Timeout"
    /\ log[2] \in {"MATCH", "no match"}

\* C15. Report naming: no two reports are written under the same name, so no
\* run's report is overwritten by another run's, even when both runs end in
\* the same second of the clock.
C15_UniqueDestinations ==
    \A f, g \in 1..Len(report) :
       f # g => report[f].outpath # report[g].outpath

====
